---- MODULE Spec2Model ----
(***************************************************************************)
(* Model of epsagon/tracer.go: the process-wide tracer singleton, its     *)
(* run loop goroutine and the free functions CreateTracer, AddEvent,      *)
(* AddException and StopTracer called from several goroutines.            *)
(*                                                                         *)
(* Channels of the source are unbuffered: a send and its receive are one  *)
(* rendezvous step taken jointly by the sender and the run loop.  The     *)
(* closed-channel flags `running` and `stopped` are booleans (closed or   *)
(* not).  Every read of the package variable globalTracer is a step of    *)
(* its own, because only CreateTracer takes the mutex; such an            *)
(* unsynchronised read returns the instance stored before or after a      *)
(* concurrent CreateTracer, which is the value of the slot at the moment  *)
(* of the step.  An unrecovered panic in Run() runs its deferred calls    *)
(* and then ends the process: no action is enabled once `crashed` holds.  *)
(*                                                                         *)
(* Spec is the program with MaxCalls calls; SpecSessions the program     *)
(* with MaxSessionCalls calls, enough to stop one session and to create  *)
(* and stop the next; FairSpec one session under fair scheduling, from    *)
(* the return of CreateTracer, with MaxLiveCalls Add and Stop calls; and  *)
(* SpecCfg applies fillConfigDefaults to every Config of Configs under    *)
(* every environment of Envs.                                              *)
(***************************************************************************)
EXTENDS Naturals, Integers, Sequences, FiniteSets, TLC

\* ---- bounds ----
MaxThreads == 2
MaxTracers == 2
MaxRecs == 2
MaxCalls == 4
MaxFills == 2
MaxLiveCalls == 3
MaxSessionCalls == 5

Threads == 1..MaxThreads
TracerIds == 1..MaxTracers
RecIds == 1..MaxRecs

\* outcomes of jsonpb MarshalToString and of http.Client.Post
MarshalOutcomes == {"ok", "err"}
PostOutcomes == {"ok", "status500", "neterr", "redirerr"}

VARIABLES
    globalTracer,   \* 0 = nil, else the id of the instance in the slot
    mutex,          \* 0 = free, else the goroutine holding it
    nTracers,       \* number of epsagonTracer values allocated so far
    events,         \* events[i]: tracer.events
    exceptions,     \* exceptions[i]: tracer.exceptions
    stopped,        \* stopped[i]: channel tracer.stopped is closed
    running,        \* running[i]: channel tracer.running is closed
    runPc,          \* position of goroutine Run() of instance i
    runVal,         \* record received by the select, not yet appended
    panicking,      \* Run() of instance i is unwinding a panic
    crashed,        \* the process died of an unrecovered panic
    sendCount,      \* number of executions of sendTraces per instance
    posts,          \* number of client.Post calls per instance
    payload,        \* <<events, exceptions>> handed to client.Post
    postResult,     \* outcome of client.Post
    flushLog,       \* error line logged by sendTraces
    pc,             \* position of each caller goroutine
    target,         \* instance a caller obtained from globalTracer
    arg,            \* record passed to AddEvent / AddException
    checked,        \* instance a caller found in the slot when it made
                    \* its nil/stopped check
    beforeStop,     \* an Add call passed its check when the run loop of
                    \* that instance had not yet taken a stop command
    nextId,         \* next fresh record
    nCalls,         \* calls of the package functions made so far
    returned,       \* <<record, kind, instance>> of the Add calls that
                    \* returned after their send
    snap,           \* snap[t]: <<instance in the slot, number of AddEvent
                    \* calls, number of AddException calls that had returned
                    \* on it>> when t invoked StopTracer; kept only while
                    \* that call can still be the one Run() takes the stop
                    \* command from
    recvE,          \* recvE[i]: events in the order Run() received them
    recvX,          \* recvX[i]: exceptions in the order Run() received them
    addedIn,        \* addedIn[r]: the instance in the slot when the Add call
                    \* of record r made its nil/stopped check (0 = nil, or
                    \* no such call yet)
    config,         \* the Config the callers pass to CreateTracer
    env,            \* the process environment ("" = variable not set)
    given,          \* the Config as it was before fillConfigDefaults ran
    fills,          \* number of executions of fillConfigDefaults
    callBudget      \* number of calls the goroutines make in all

tracerVars == <<events, exceptions, stopped, running, runPc, runVal, panicking>>
netVars == <<sendCount, posts, payload, postResult, flushLog>>
slotVars == <<globalTracer, mutex, nTracers>>
counters == <<nextId, nCalls>>
callVars == <<pc, target, arg, checked, beforeStop, counters>>
histVars == <<returned, snap, recvE, recvX, addedIn>>
cfgVars == <<config, env, given, fills>>
vars ==
    <<slotVars, tracerVars, netVars, crashed, callVars, histVars, cfgVars,
      callBudget>>

\* isChannelPinged on a channel that is only ever closed, never sent on
isChannelPinged(closed) == closed

Running(i) == isChannelPinged(running[i])

Stopped(i) == isChannelPinged(stopped[i])

\* a caller that is not inside an Add call holds no record
NoArg == <<0, "none">>

\* a caller that is not inside StopTracer holds no snapshot
NoSnap == <<0, 0, 0>>

\* positions of Run() before it has taken a stop command
BeforeStopCmd == {"start", "loop", "append_ev", "append_ex"}

\* number of Add calls of one kind that have returned on instance i
ReturnedOn(i, kind) ==
    Cardinality({r \in returned : r[2] = kind /\ r[3] = i})

\* Goroutines keep nothing between two calls, so the next call is made by
\* the idle goroutine of lowest index: Threads are the calls in flight.
CanCall(t) ==
    /\ pc[t] = "idle"
    /\ \A u \in Threads : u < t => pc[u] # "idle"

\* ---------------------------------------------------------------------
\* Config and fillConfigDefaults
\* ---------------------------------------------------------------------

\* the Config values and environments the resolver is applied to
Configs ==
    [ApplicationName : {"", "svc"},
     Token : {"", "t1"},
     CollectorURL : {"", "http://example"},
     MetadataOnly : BOOLEAN,
     Debug : BOOLEAN]

Envs ==
    [EPSAGON_DEBUG : {"", "TRUE", "true"},
     EPSAGON_TOKEN : {"", "envtoken"},
     AWS_REGION : {"", "eu-west-1"}]

\* if !config.Debug { if os.Getenv("EPSAGON_DEBUG") == "TRUE" { ... } }
fillDebug(c, e) == c.Debug \/ e.EPSAGON_DEBUG = "TRUE"

\* fault: the token of the environment replaces a token that was given
fillToken_EnvAlways(c, e) == e.EPSAGON_TOKEN

\* if len(config.Token) == 0 { config.Token = os.Getenv("EPSAGON_TOKEN") }
fillToken(c, e) == IF Len(c.Token) = 0 THEN e.EPSAGON_TOKEN ELSE c.Token

\* fmt.Sprintf("http://%s.tc.epsagon.com", region)
regionURL(region) == "http://" \o region \o ".tc.epsagon.com"

\* if len(config.CollectorURL) == 0 { region-derived or us-east-1 URL }
fillCollectorURL(c, e) ==
    IF Len(c.CollectorURL) = 0
      THEN IF Len(e.AWS_REGION) # 0
             THEN regionURL(e.AWS_REGION)
             ELSE "http://us-east-1.tc.epsagon.com"
      ELSE c.CollectorURL

fillConfigDefaults(c, e) ==
    [c EXCEPT !.Debug = fillDebug(c, e),
              !.Token = fillToken(c, e),
              !.CollectorURL = fillCollectorURL(c, e)]

\* the Config and the environment of the process that uses the tracer
CallerConfig ==
    [ApplicationName |-> "svc", Token |-> "", CollectorURL |-> "",
     MetadataOnly |-> FALSE, Debug |-> FALSE]

ProcessEnv ==
    [EPSAGON_DEBUG |-> "", EPSAGON_TOKEN |-> "envtoken",
     AWS_REGION |-> "eu-west-1"]

InitTracer ==
    /\ globalTracer = 0
    /\ mutex = 0
    /\ nTracers = 0
    /\ events = [i \in TracerIds |-> <<>>]
    /\ exceptions = [i \in TracerIds |-> <<>>]
    /\ stopped = [i \in TracerIds |-> FALSE]
    /\ running = [i \in TracerIds |-> FALSE]
    /\ runPc = [i \in TracerIds |-> "none"]
    /\ runVal = [i \in TracerIds |-> 0]
    /\ panicking = [i \in TracerIds |-> FALSE]
    /\ crashed = FALSE
    /\ sendCount = [i \in TracerIds |-> 0]
    /\ posts = [i \in TracerIds |-> 0]
    /\ payload = [i \in TracerIds |-> <<<<>>, <<>>>>]
    /\ postResult = [i \in TracerIds |-> "none"]
    /\ flushLog = [i \in TracerIds |-> "none"]
    /\ pc = [t \in Threads |-> "idle"]
    /\ target = [t \in Threads |-> 0]
    /\ arg = [t \in Threads |-> NoArg]
    /\ nextId = 1
    /\ nCalls = 0
    /\ returned = {}
    /\ snap = [t \in Threads |-> NoSnap]
    /\ recvE = [i \in TracerIds |-> <<>>]
    /\ recvX = [i \in TracerIds |-> <<>>]
    /\ addedIn = [r \in RecIds |-> 0]
    /\ checked = [t \in Threads |-> 0]
    /\ beforeStop = [t \in Threads |-> FALSE]

InitConfig ==
    /\ config = CallerConfig
    /\ env = ProcessEnv
    /\ given = config
    /\ fills = 0

Init ==
    /\ InitTracer
    /\ InitConfig
    /\ callBudget = MaxCalls

\* ---------------------------------------------------------------------
\* CreateTracer
\* ---------------------------------------------------------------------

\* fault: the negation of Stopped() is lost
CreateGuard_NegationLost == globalTracer # 0 /\ Stopped(globalTracer)

\* fault: an instance whose run loop has not started yet is replaced
CreateGuard_OnlyRunning ==
    globalTracer # 0 /\ Running(globalTracer) /\ ~Stopped(globalTracer)

\* the guard of CreateTracer: an instance exists and is not stopped
CreateGuard == globalTracer # 0 /\ ~Stopped(globalTracer)

\* mutex.Lock(); if globalTracer != nil && !globalTracer.Stopped()
CreateCheck(t) ==
    /\ ~crashed
    /\ CanCall(t)
    /\ mutex = 0
    /\ nCalls < callBudget
    /\ nCalls' = nCalls + 1
    /\ mutex' = t
    /\ pc' = [pc EXCEPT ![t] = IF CreateGuard THEN "ct_noop" ELSE "ct_alloc"]
    /\ UNCHANGED <<globalTracer, nTracers, tracerVars, netVars, crashed,
                   target, arg, nextId, histVars, checked, beforeStop,
                   cfgVars, callBudget>>

\* log "already created"; return; deferred mutex.Unlock()
CreateNoop(t) ==
    /\ ~crashed
    /\ pc[t] = "ct_noop"
    /\ mutex' = 0
    /\ pc' = [pc EXCEPT ![t] = "idle"]
    /\ UNCHANGED <<globalTracer, nTracers, tracerVars, netVars, crashed,
                   target, arg, counters, histVars, checked, beforeStop,
                   cfgVars, callBudget>>

\* make([]*protocol.Event, 0, 0), make([]*protocol.Exception, 0, 0)
NewBuffer(bufs) == <<>>

\* allocate the instance, store it in the slot, go Run(); deferred Unlock
CreateAlloc(t) ==
    /\ ~crashed
    /\ pc[t] = "ct_alloc"
    /\ nTracers < MaxTracers
    /\ LET i == nTracers + 1 IN
        /\ nTracers' = i
        /\ globalTracer' = i
        /\ events' = [events EXCEPT ![i] = NewBuffer(events)]
        /\ exceptions' = [exceptions EXCEPT ![i] = NewBuffer(exceptions)]
        /\ stopped' = [stopped EXCEPT ![i] = FALSE]
        /\ running' = [running EXCEPT ![i] = FALSE]
        /\ runPc' = [runPc EXCEPT ![i] = "start"]
    /\ config' = fillConfigDefaults(config, env)
    /\ fills' = fills + 1
    /\ mutex' = 0
    /\ pc' = [pc EXCEPT ![t] = "idle"]
    /\ UNCHANGED <<runVal, panicking, netVars, crashed, target, arg, counters,
                   histVars, checked, beforeStop, env, given, callBudget>>

\* ---------------------------------------------------------------------
\* AddEvent / AddException (package functions and methods)
\* ---------------------------------------------------------------------

\* fault: only the nil check is made
AddGuard_NilOnly == globalTracer = 0

\* the guard of AddEvent and AddException
AddGuard == globalTracer = 0 \/ Stopped(globalTracer)

\* the check passes on an instance whose run loop has taken no stop command
PassedBeforeStop == ~AddGuard /\ runPc[globalTracer] \in BeforeStopCmd

\* if globalTracer == nil || globalTracer.Stopped()
AddCheck(t, kind) ==
    /\ ~crashed
    /\ CanCall(t)
    /\ nextId <= MaxRecs
    /\ arg' = [arg EXCEPT ![t] = <<nextId, kind>>]
    /\ nextId' = nextId + 1
    /\ nCalls < callBudget
    /\ nCalls' = nCalls + 1
    /\ checked' = [checked EXCEPT ![t] = globalTracer]
    /\ addedIn' = [addedIn EXCEPT ![nextId] = globalTracer]
    /\ beforeStop' = [beforeStop EXCEPT ![t] = PassedBeforeStop]
    /\ pc' = [pc EXCEPT ![t] = IF AddGuard THEN "ae_noop" ELSE "ae_read"]
    /\ UNCHANGED <<slotVars, tracerVars, netVars, crashed, target, returned,
                   snap, recvE, recvX, cfgVars, callBudget>>

AddEvent(t) == AddCheck(t, "event")

AddException(t) == AddCheck(t, "exception")

\* log "not initialized"; return
AddNoop(t) ==
    /\ ~crashed
    /\ pc[t] = "ae_noop"
    /\ arg' = [arg EXCEPT ![t] = NoArg]
    /\ checked' = [checked EXCEPT ![t] = 0]
    /\ beforeStop' = [beforeStop EXCEPT ![t] = FALSE]
    /\ pc' = [pc EXCEPT ![t] = "idle"]
    /\ UNCHANGED <<slotVars, tracerVars, netVars, crashed, target, counters,
                   histVars, cfgVars, callBudget>>

\* fault: the pipe is buffered, the send returns before Run() receives and
\* the record stays in the pipe
AddRead_NoHandoff(t) ==
    /\ ~crashed
    /\ pc[t] = "ae_read"
    /\ target' = [target EXCEPT ![t] = globalTracer]
    /\ pc' = [pc EXCEPT ![t] = "ae_ret"]
    /\ UNCHANGED <<slotVars, tracerVars, netVars, crashed, arg, counters,
                   histVars, checked, beforeStop, cfgVars, callBudget>>

\* globalTracer.AddEvent(event): the slot is read again, then the method
\* starts its send on that instance's pipe
AddRead(t) ==
    /\ ~crashed
    /\ pc[t] = "ae_read"
    /\ target' = [target EXCEPT ![t] = globalTracer]
    /\ pc' = [pc EXCEPT ![t] = "ae_send"]
    /\ UNCHANGED <<slotVars, tracerVars, netVars, crashed, arg, counters,
                   histVars, checked, beforeStop, cfgVars, callBudget>>

\* the method returns after its send was received
AddReturn(t) ==
    /\ ~crashed
    /\ pc[t] = "ae_ret"
    /\ returned' = returned \cup {<<arg[t][1], arg[t][2], target[t]>>}
    /\ arg' = [arg EXCEPT ![t] = NoArg]
    /\ target' = [target EXCEPT ![t] = 0]
    /\ checked' = [checked EXCEPT ![t] = 0]
    /\ beforeStop' = [beforeStop EXCEPT ![t] = FALSE]
    /\ pc' = [pc EXCEPT ![t] = "idle"]
    /\ UNCHANGED <<slotVars, tracerVars, netVars, crashed, counters, snap,
                   recvE, recvX, cfgVars, callBudget, addedIn>>

\* ---------------------------------------------------------------------
\* StopTracer / Stop
\* ---------------------------------------------------------------------

\* what a caller of StopTracer remembers of the moment of its call
SnapAtStop ==
    IF globalTracer # 0 /\ runPc[globalTracer] \in BeforeStopCmd
      THEN <<globalTracer, ReturnedOn(globalTracer, "event"),
             ReturnedOn(globalTracer, "exception")>>
      ELSE NoSnap

\* fault: only the nil check is made
StopGuard_NilOnly == globalTracer = 0

\* the guard of StopTracer
StopGuard == globalTracer = 0 \/ Stopped(globalTracer)

\* if globalTracer == nil || globalTracer.Stopped()
StopCheck(t) ==
    /\ ~crashed
    /\ CanCall(t)
    /\ nCalls < callBudget
    /\ nCalls' = nCalls + 1
    /\ snap' = [snap EXCEPT ![t] = SnapAtStop]
    /\ checked' = [checked EXCEPT ![t] = globalTracer]
    /\ pc' = [pc EXCEPT ![t] = IF StopGuard THEN "st_noop" ELSE "st_read"]
    /\ UNCHANGED <<slotVars, tracerVars, netVars, crashed, target, arg,
                   nextId, returned, recvE, recvX, beforeStop, cfgVars,
                   callBudget, addedIn>>

\* log "not initialized"; return
StopNoop(t) ==
    /\ ~crashed
    /\ pc[t] = "st_noop"
    /\ snap' = [snap EXCEPT ![t] = NoSnap]
    /\ checked' = [checked EXCEPT ![t] = 0]
    /\ pc' = [pc EXCEPT ![t] = "idle"]
    /\ UNCHANGED <<slotVars, tracerVars, netVars, crashed, target, arg,
                   counters, returned, recvE, recvX, beforeStop, cfgVars,
                   callBudget, addedIn>>

\* globalTracer.Stop(): the slot is read again to get the receiver
StopRead(t) ==
    /\ ~crashed
    /\ pc[t] = "st_read"
    /\ target' = [target EXCEPT ![t] = globalTracer]
    /\ pc' = [pc EXCEPT ![t] = "stop_select"]
    /\ UNCHANGED <<slotVars, tracerVars, netVars, crashed, arg, counters,
                   histVars, checked, beforeStop, cfgVars, callBudget>>

\* the position Stop() moves to from its select
StopSelectNext(i) == IF Stopped(i) THEN "idle" ELSE "stop_send"

\* select { case <-tracer.stopped: return; default: ... }
StopSelect(t) ==
    /\ ~crashed
    /\ pc[t] = "stop_select"
    /\ pc' = [pc EXCEPT ![t] = StopSelectNext(target[t])]
    /\ IF StopSelectNext(target[t]) = "idle"
         THEN /\ target' = [target EXCEPT ![t] = 0]
              /\ snap' = [snap EXCEPT ![t] = NoSnap]
              /\ checked' = [checked EXCEPT ![t] = 0]
         ELSE UNCHANGED <<target, snap, checked, beforeStop>>
    /\ UNCHANGED <<slotVars, tracerVars, netVars, crashed, arg, counters,
                   returned, recvE, recvX, beforeStop, cfgVars, callBudget,
                   addedIn>>

\* fault: Stop() returns without waiting for `stopped`
StopWait_NoWait(t) ==
    /\ ~crashed
    /\ pc[t] = "stop_wait"
    /\ target' = [target EXCEPT ![t] = 0]
    /\ snap' = [snap EXCEPT ![t] = NoSnap]
    /\ checked' = [checked EXCEPT ![t] = 0]
    /\ pc' = [pc EXCEPT ![t] = "idle"]
    /\ UNCHANGED <<slotVars, tracerVars, netVars, crashed, arg, counters,
                   returned, recvE, recvX, beforeStop, cfgVars, callBudget,
                   addedIn>>

\* <-tracer.stopped
StopWait(t) ==
    /\ ~crashed
    /\ pc[t] = "stop_wait"
    /\ stopped[target[t]]
    /\ target' = [target EXCEPT ![t] = 0]
    /\ snap' = [snap EXCEPT ![t] = NoSnap]
    /\ checked' = [checked EXCEPT ![t] = 0]
    /\ pc' = [pc EXCEPT ![t] = "idle"]
    /\ UNCHANGED <<slotVars, tracerVars, netVars, crashed, arg, counters,
                   returned, recvE, recvX, beforeStop, cfgVars, callBudget,
                   addedIn>>

\* ---------------------------------------------------------------------
\* Run: the goroutine of one instance
\* ---------------------------------------------------------------------

\* if tracer.Running() { return }; close(tracer.running); the two defers
RunStart(i) ==
    /\ ~crashed
    /\ runPc[i] = "start"
    /\ IF Running(i)
         THEN /\ runPc' = [runPc EXCEPT ![i] = "done"]
              /\ UNCHANGED running
         ELSE /\ running' = [running EXCEPT ![i] = TRUE]
              /\ runPc' = [runPc EXCEPT ![i] = "loop"]
    /\ UNCHANGED <<slotVars, events, exceptions, stopped, runVal, panicking,
                   netVars, crashed, callVars, histVars, cfgVars, callBudget>>

\* case event := <-tracer.eventsPipe, jointly with the sender t
RunRecvEvent(i, t) ==
    /\ ~crashed
    /\ runPc[i] = "loop"
    /\ pc[t] = "ae_send" /\ target[t] = i /\ arg[t][2] = "event"
    /\ runVal' = [runVal EXCEPT ![i] = arg[t][1]]
    /\ runPc' = [runPc EXCEPT ![i] = "append_ev"]
    /\ pc' = [pc EXCEPT ![t] = "ae_ret"]
    /\ recvE' = [recvE EXCEPT ![i] = Append(@, arg[t][1])]
    /\ UNCHANGED <<slotVars, events, exceptions, stopped, running, panicking,
                   netVars, crashed, target, arg, checked, beforeStop,
                   counters, returned, snap, recvX, cfgVars, callBudget,
                   addedIn>>

\* case exception := <-tracer.exceptionsPipe, jointly with the sender t
RunRecvException(i, t) ==
    /\ ~crashed
    /\ runPc[i] = "loop"
    /\ pc[t] = "ae_send" /\ target[t] = i /\ arg[t][2] = "exception"
    /\ runVal' = [runVal EXCEPT ![i] = arg[t][1]]
    /\ runPc' = [runPc EXCEPT ![i] = "append_ex"]
    /\ pc' = [pc EXCEPT ![t] = "ae_ret"]
    /\ recvX' = [recvX EXCEPT ![i] = Append(@, arg[t][1])]
    /\ UNCHANGED <<slotVars, events, exceptions, stopped, running, panicking,
                   netVars, crashed, target, arg, checked, beforeStop,
                   counters, returned, snap, recvE, cfgVars, callBudget,
                   addedIn>>

\* fault: the received record is not stored
append_Drop(buf, rec) == buf

\* fault: the new record is put in front of the buffer
append_Front(buf, rec) == <<rec>> \o buf

\* Go's append(buf, rec)
append(buf, rec) == Append(buf, rec)

\* tracer.events = append(tracer.events, event)
RunAppendEvent(i) ==
    /\ ~crashed
    /\ runPc[i] = "append_ev"
    /\ events' = [events EXCEPT ![i] = append(@, runVal[i])]
    /\ runVal' = [runVal EXCEPT ![i] = 0]
    /\ runPc' = [runPc EXCEPT ![i] = "loop"]
    /\ UNCHANGED <<slotVars, exceptions, stopped, running, panicking, netVars,
                   crashed, callVars, histVars, cfgVars, callBudget>>

\* tracer.exceptions = append(tracer.exceptions, exception)
RunAppendException(i) ==
    /\ ~crashed
    /\ runPc[i] = "append_ex"
    /\ exceptions' = [exceptions EXCEPT ![i] = append(@, runVal[i])]
    /\ runVal' = [runVal EXCEPT ![i] = 0]
    /\ runPc' = [runPc EXCEPT ![i] = "loop"]
    /\ UNCHANGED <<slotVars, events, stopped, running, panicking, netVars,
                   crashed, callVars, histVars, cfgVars, callBudget>>

\* fault: the select serves the two pipes first, the stop command is taken
\* only when no caller is sending a record
RunRecvClose_AfterSenders(i, t) ==
    /\ \A u \in Threads : ~(pc[u] = "ae_send" /\ target[u] = i)
    /\ ~crashed
    /\ runPc[i] = "loop"
    /\ pc[t] = "stop_send" /\ target[t] = i
    /\ runPc' = [runPc EXCEPT ![i] = "sending"]
    /\ pc' = [pc EXCEPT ![t] = "stop_wait"]
    /\ snap' = [u \in Threads |->
                 IF u = t /\ snap[t][1] = i THEN snap[t] ELSE NoSnap]
    /\ UNCHANGED <<slotVars, events, exceptions, stopped, running, runVal,
                   panicking, netVars, crashed, target, arg, checked,
                   beforeStop, counters, returned, recvE, recvX, cfgVars,
                   callBudget, addedIn>>

\* case <-tracer.closeCmd, jointly with the sender t in Stop()
RunRecvClose(i, t) ==
    /\ ~crashed
    /\ runPc[i] = "loop"
    /\ pc[t] = "stop_send" /\ target[t] = i
    /\ runPc' = [runPc EXCEPT ![i] = "sending"]
    /\ pc' = [pc EXCEPT ![t] = "stop_wait"]
    /\ snap' = [u \in Threads |->
                 IF u = t /\ snap[t][1] = i THEN snap[t] ELSE NoSnap]
    /\ UNCHANGED <<slotVars, events, exceptions, stopped, running, runVal,
                   panicking, netVars, crashed, target, arg, checked,
                   beforeStop, counters, returned, recvE, recvX, cfgVars,
                   callBudget, addedIn>>

\* the trace built by getTraceReader: Events and Exceptions of the instance
getTraceReader(i) == <<events[i], exceptions[i]>>

\* what sendTraces logs for an outcome of client.Post (resp is nil on a
\* network error, so resp.Body panics before the log line is reached)
PostLog(res) == IF res = "redirerr" THEN "send_error" ELSE "none"

\* whether sendTraces panics for an outcome of client.Post
PostPanics(res) == res = "neterr"

\* fault: the return after the marshalling error is missing, the POST is
\* made all the same
sendTraces_PostAfterMarshalError(i, m) ==
    /\ sendCount' = [sendCount EXCEPT ![i] = @ + 1]
    /\ posts' = [posts EXCEPT ![i] = @ + 1]
    /\ payload' = [payload EXCEPT ![i] = getTraceReader(i)]
    /\ flushLog' = [flushLog EXCEPT ![i] =
                      IF m = "err" THEN "marshal_error" ELSE @]
    /\ UNCHANGED <<postResult, panicking>>

\* sendTraces() up to the call of client.Post: the trace is marshalled;
\* on an error that is logged and sendTraces returns, else the request is
\* made with the marshalled trace and Run() waits for its result
sendTraces(i, m) ==
    /\ sendCount' = [sendCount EXCEPT ![i] = @ + 1]
    /\ IF m = "err"
         THEN /\ flushLog' = [flushLog EXCEPT ![i] = "marshal_error"]
              /\ UNCHANGED <<posts, payload>>
         ELSE /\ posts' = [posts EXCEPT ![i] = @ + 1]
              /\ payload' = [payload EXCEPT ![i] = getTraceReader(i)]
              /\ UNCHANGED flushLog
    /\ UNCHANGED <<postResult, panicking>>

\* fault: the return after sendTraces is missing, the loop goes on
RunAfterSend_NoReturn == "loop"

\* after sendTraces the loop is left: return runs the deferred calls
RunAfterSend == "closing"

\* tracer.sendTraces(), until it returns on a marshalling error or blocks
\* in client.Post
RunSend(i) ==
    /\ ~crashed
    /\ runPc[i] = "sending"
    /\ \E m \in MarshalOutcomes : sendTraces(i, m)
    /\ runPc' = [runPc EXCEPT ![i] =
                   IF posts'[i] = posts[i] THEN RunAfterSend ELSE "posting"]
    /\ UNCHANGED <<slotVars, events, exceptions, stopped, running, runVal,
                   crashed, callVars, histVars, cfgVars, callBudget>>

\* client.Post returns, with its answer, an error or after its timeout of
\* one second: the rest of sendTraces (log the error, or panic on the nil
\* response), then return
RunPostReturns(i) ==
    /\ ~crashed
    /\ runPc[i] = "posting"
    /\ \E res \in PostOutcomes :
          /\ postResult' = [postResult EXCEPT ![i] = res]
          /\ flushLog' = [flushLog EXCEPT ![i] = PostLog(res)]
          /\ panicking' = [panicking EXCEPT ![i] = PostPanics(res)]
    /\ runPc' = [runPc EXCEPT ![i] = RunAfterSend]
    /\ UNCHANGED <<slotVars, events, exceptions, stopped, running, runVal,
                   sendCount, posts, payload, crashed, callVars, histVars,
                   cfgVars, callBudget>>

\* fault: close(stopped) is made inside the loop, which then goes on
RunAfterClose_LoopAgain == "loop"

\* the deferred calls run last-in first-out: close(tracer.stopped), then
\* the reset of tracer.running
RunAfterClose == "resetting"

\* deferred close(tracer.stopped)
RunCloseStopped(i) ==
    /\ ~crashed
    /\ runPc[i] = "closing"
    /\ stopped' = [stopped EXCEPT ![i] = TRUE]
    /\ runPc' = [runPc EXCEPT ![i] = RunAfterClose]
    /\ UNCHANGED <<slotVars, events, exceptions, running, runVal, panicking,
                   netVars, crashed, callVars, histVars, cfgVars, callBudget>>

\* fault: the deferred reset is missing, `running` stays closed
RunningAfterReturn_Kept == TRUE

\* tracer.running = make(chan struct{}): a new channel, not closed
RunningAfterReturn == FALSE

\* deferred tracer.running = make(chan struct{}); a panic that unwound the
\* goroutine then ends the process
RunResetRunning(i) ==
    /\ ~crashed
    /\ runPc[i] = "resetting"
    /\ running' = [running EXCEPT ![i] = RunningAfterReturn]
    /\ runPc' = [runPc EXCEPT ![i] = "done"]
    /\ crashed' = panicking[i]
    /\ UNCHANGED <<slotVars, events, exceptions, stopped, runVal, panicking,
                   netVars, callVars, histVars, cfgVars, callBudget>>

Run(i) ==
    \/ RunStart(i)
    \/ \E t \in Threads : RunRecvEvent(i, t)
    \/ \E t \in Threads : RunRecvException(i, t)
    \/ RunAppendEvent(i)
    \/ RunAppendException(i)
    \/ \E t \in Threads : RunRecvClose(i, t)
    \/ RunSend(i)
    \/ RunPostReturns(i)
    \/ RunCloseStopped(i)
    \/ RunResetRunning(i)

CreateTracer(t) ==
    \/ CreateCheck(t)
    \/ CreateNoop(t)
    \/ CreateAlloc(t)

Add(t) ==
    \/ AddEvent(t)
    \/ AddException(t)
    \/ AddNoop(t)
    \/ AddRead(t)
    \/ AddReturn(t)

StopTracer(t) ==
    \/ StopCheck(t)
    \/ StopNoop(t)
    \/ StopRead(t)
    \/ StopSelect(t)
    \/ StopWait(t)

Next ==
    \/ \E t \in Threads : CreateTracer(t)
    \/ \E t \in Threads : Add(t)
    \/ \E t \in Threads : StopTracer(t)
    \/ \E i \in TracerIds : Run(i)

Spec == Init /\ [][Next]_vars

\* the program with MaxSessionCalls calls made in all: enough for a session
\* that is created, used and stopped, and a second one that is created
\* and stopped
InitSessions ==
    /\ InitTracer
    /\ InitConfig
    /\ callBudget = MaxSessionCalls

SpecSessions == InitSessions /\ [][Next]_vars

\* ---------------------------------------------------------------------
\* The program under the fairness of its scheduling
\* ---------------------------------------------------------------------

\* the steps inside calls that were made, and the steps of the run loops:
\* everything but the decision of a caller to make a new call
Progress ==
    \/ \E t \in Threads :
          \/ CreateNoop(t) \/ CreateAlloc(t)
          \/ AddNoop(t) \/ AddRead(t) \/ AddReturn(t)
          \/ StopNoop(t) \/ StopRead(t) \/ StopSelect(t) \/ StopWait(t)
    \/ \E i \in TracerIds : Run(i)

\* the instance the first CreateTracer call allocates
FirstTracer == 1

\* The scheduler of the Go runtime does not starve a goroutine that can
\* run: the program does not halt while some goroutine can take a step.
\* select picks at random among the cases that are ready: the case
\* <-tracer.closeCmd is taken if it is ready again and again, also when the
\* cases of the two pipes are ready each time and the run loop leaves the
\* select in between to append a record.
Fairness ==
    /\ WF_vars(Progress)
    /\ SF_vars(\E t \in Threads : RunRecvClose(FirstTracer, t))

\* one session: CreateTracer has returned, the instance it made is in the
\* slot and its goroutine Run() has not started; MaxLiveCalls calls follow
InitLive ==
    /\ globalTracer = FirstTracer
    /\ mutex = 0
    /\ nTracers = 1
    /\ events = [i \in TracerIds |-> <<>>]
    /\ exceptions = [i \in TracerIds |-> <<>>]
    /\ stopped = [i \in TracerIds |-> FALSE]
    /\ running = [i \in TracerIds |-> FALSE]
    /\ runPc = [i \in TracerIds |-> IF i = FirstTracer THEN "start" ELSE "none"]
    /\ runVal = [i \in TracerIds |-> 0]
    /\ panicking = [i \in TracerIds |-> FALSE]
    /\ crashed = FALSE
    /\ sendCount = [i \in TracerIds |-> 0]
    /\ posts = [i \in TracerIds |-> 0]
    /\ payload = [i \in TracerIds |-> <<<<>>, <<>>>>]
    /\ postResult = [i \in TracerIds |-> "none"]
    /\ flushLog = [i \in TracerIds |-> "none"]
    /\ pc = [t \in Threads |-> "idle"]
    /\ target = [t \in Threads |-> 0]
    /\ arg = [t \in Threads |-> NoArg]
    /\ nextId = 1
    /\ nCalls = 1
    /\ returned = {}
    /\ snap = [t \in Threads |-> NoSnap]
    /\ recvE = [i \in TracerIds |-> <<>>]
    /\ recvX = [i \in TracerIds |-> <<>>]
    /\ addedIn = [r \in RecIds |-> 0]
    /\ checked = [t \in Threads |-> 0]
    /\ beforeStop = [t \in Threads |-> FALSE]
    /\ given = CallerConfig
    /\ env = ProcessEnv
    /\ config = fillConfigDefaults(CallerConfig, ProcessEnv)
    /\ fills = 1
    /\ callBudget = 1 + MaxLiveCalls

\* the calls of the session: AddEvent, AddException and StopTracer
NextLive ==
    \/ \E t \in Threads : Add(t)
    \/ \E t \in Threads : StopTracer(t)
    \/ \E i \in TracerIds : Run(i)

FairSpec == InitLive /\ [][NextLive]_vars /\ Fairness

\* ---------------------------------------------------------------------
\* fillConfigDefaults on its own: every Config under every environment
\* ---------------------------------------------------------------------

InitCfg ==
    /\ InitTracer
    /\ config \in Configs
    /\ env \in Envs
    /\ given = config
    /\ fills = 0
    /\ callBudget = MaxCalls

\* one call fillConfigDefaults(config) on the caller's Config
FillConfig ==
    /\ fills < MaxFills
    /\ config' = fillConfigDefaults(config, env)
    /\ fills' = fills + 1
    /\ UNCHANGED <<slotVars, tracerVars, netVars, crashed, callVars,
                   histVars, env, given, callBudget>>

NextCfg == FillConfig

SpecCfg == InitCfg /\ [][NextCfg]_vars

Range(q) == {q[k] : k \in 1..Len(q)}

\* positions of Run() after it has taken a stop command
AfterStopCmd == {"sending", "posting", "closing", "resetting", "done"}

\* ---------------------------------------------------------------------
\* C1: concurrent Stop()/StopTracer() calls on a not-yet-stopped instance
\* all return and the flush runs at most once.  As a safety statement: no
\* caller is left on the stop-command send of an instance whose run loop
\* has already taken a stop command (nothing receives from closeCmd any
\* more, so that caller can never return), and sendTraces has run at most
\* once per instance.
\* ---------------------------------------------------------------------
C1_StopReturnsFlushOnce ==
    /\ \A t \in Threads :
          ~(pc[t] = "stop_send" /\ runPc[target[t]] \in AfterStopCmd)
    /\ \A i \in TracerIds : sendCount[i] <= 1

\* ---------------------------------------------------------------------
\* C2: at most one instance whose stopped signal is not set exists at any
\* time.
\* ---------------------------------------------------------------------
C2_AtMostOneActive ==
    Cardinality({i \in 1..nTracers : ~Stopped(i)}) <= 1

\* a second instance is running after the first one stopped
C2_Witness ==
    /\ nTracers >= 2
    /\ Stopped(1)
    /\ ~Stopped(2)
    /\ runPc[2] = "loop"

\* ---------------------------------------------------------------------
\* C3: CreateTracer called while the singleton exists and is not stopped,
\* whether or not its run loop has started, takes the early return: the
\* slot, the instances, their buffers and flags and the run loops are all
\* left as they were, and exactly one run loop exists per instance.
\* ---------------------------------------------------------------------
C3_CreateIsNoop ==
    /\ [][\A t \in Threads :
            /\ (/\ pc[t] = "idle"
                /\ pc'[t] \in {"ct_noop", "ct_alloc"}
                /\ globalTracer # 0
                /\ ~stopped[globalTracer])
               => (/\ pc'[t] = "ct_noop"
                   /\ UNCHANGED <<globalTracer, nTracers, tracerVars, netVars>>)
            /\ (pc[t] = "ct_noop" /\ pc'[t] # "ct_noop")
               => (/\ pc'[t] = "idle"
                   /\ UNCHANGED <<globalTracer, nTracers, tracerVars, netVars>>)
            /\ (pc[t] = "ae_read" /\ pc'[t] = "ae_send")
               => target'[t] = globalTracer]_vars
    /\ [](\A i \in TracerIds : (runPc[i] # "none") <=> (i <= nTracers))

\* a second CreateTracer is on its early return while the first instance,
\* which already holds a record, is still in its loop
C3_Witness ==
    \E t \in Threads :
        /\ pc[t] = "ct_noop"
        /\ globalTracer = 1
        /\ nTracers = 1
        /\ runPc[1] = "loop"
        /\ Len(events[1]) + Len(exceptions[1]) > 0

\* records of a flushed payload, events and exceptions together
PayloadRecs(i) == Range(payload[i][1]) \cup Range(payload[i][2])

NoDuplicates(q) == Cardinality(Range(q)) = Len(q)

\* the Add call that carried record r of the given kind to instance i has
\* had its send received by Run()
SendReceived(r, kind, i) ==
    \/ <<r, kind, i>> \in returned
    \/ \E t \in Threads :
          pc[t] = "ae_ret" /\ arg[t] = <<r, kind>> /\ target[t] = i

\* ---------------------------------------------------------------------
\* C4 as stated: the flushed payload holds, in receive order, exactly the
\* records of the Add calls made before Stop completes.  A call that has
\* started its send on the instance was made before that instance's Stop
\* completes, so its record must be in the payload once it is posted.
\* ---------------------------------------------------------------------
C4_AllCallsMadeAreFlushed ==
    \A i \in TracerIds :
        posts[i] > 0 =>
            /\ payload[i] = <<recvE[i], recvX[i]>>
            /\ \A t \in Threads :
                  (pc[t] = "ae_send" /\ target[t] = i)
                      => arg[t][1] \in PayloadRecs(i)

\* ---------------------------------------------------------------------
\* C4 amended: the flushed payload holds exactly the records Run() received
\* before it took the stop command (those of the Add calls whose send was
\* received), events in receive order and exceptions in receive order,
\* none duplicated, none foreign.
\* ---------------------------------------------------------------------
C4_ReceivedAreFlushedInOrder ==
    \A i \in TracerIds :
        posts[i] > 0 =>
            /\ payload[i][1] = recvE[i]
            /\ payload[i][2] = recvX[i]
            /\ NoDuplicates(payload[i][1] \o payload[i][2])
            /\ \A r \in Range(payload[i][1]) : SendReceived(r, "event", i)
            /\ \A r \in Range(payload[i][2]) : SendReceived(r, "exception", i)

\* a payload with two events was posted
C4_Witness ==
    \E i \in TracerIds :
        /\ posts[i] = 1
        /\ Len(payload[i][1]) = 2
        /\ payload[i][1][1] # payload[i][1][2]

\* ---------------------------------------------------------------------
\* C5 as stated: once Stop completes, exactly one transport call was made
\* for the instance and the payload's event and exception counts equal the
\* numbers of AddEvent and AddException calls that had returned before Stop
\* was invoked.
\* ---------------------------------------------------------------------
C5_OnePostCountsAtInvocation ==
    \A i \in TracerIds, t \in Threads :
        (pc[t] = "stop_wait" /\ target[t] = i /\ snap[t][1] = i /\ Stopped(i))
            => /\ posts[i] = 1
               /\ Len(payload[i][1]) = snap[t][2]
               /\ Len(payload[i][2]) = snap[t][3]

\* ---------------------------------------------------------------------
\* C5 amended: once Stop completes, sendTraces has run exactly once for the
\* instance and at most one transport call was made, exactly one unless
\* marshaling failed; the payload's event and exception counts equal the
\* numbers of records Run() had received when it took the stop command,
\* which are at least the numbers of Add calls that had returned before
\* Stop was invoked.
\* ---------------------------------------------------------------------
C5_OnePostCountsAtStopCmd ==
    \A i \in TracerIds :
        /\ posts[i] <= 1
        /\ sendCount[i] <= 1
        /\ Stopped(i) =>
              /\ sendCount[i] = 1
              /\ (posts[i] = 1) <=> (flushLog[i] # "marshal_error")
        /\ posts[i] = 1 =>
              /\ Len(payload[i][1]) = Len(recvE[i])
              /\ Len(payload[i][2]) = Len(recvX[i])
              /\ \A t \in Threads :
                    (pc[t] = "stop_wait" /\ target[t] = i /\ snap[t][1] = i)
                        => /\ Len(payload[i][1]) >= snap[t][2]
                           /\ Len(payload[i][2]) >= snap[t][3]

\* Stop is about to return after a post whose payload holds a record that
\* had not returned when Stop was invoked
C5_Witness ==
    \E i \in TracerIds, t \in Threads :
        /\ pc[t] = "stop_wait" /\ target[t] = i /\ snap[t][1] = i
        /\ Stopped(i)
        /\ posts[i] = 1
        /\ Len(payload[i][1]) > snap[t][2]

\* ---------------------------------------------------------------------
\* C6: every record whose Add call returned before the same caller invoked
\* StopTracer is in the payload flushed by that Stop, whatever other
\* producers do.  Checked for every Add call that returned on the
\* instance, by whichever caller: a call that returned before the caller's
\* StopTracer is one of them.
\* ---------------------------------------------------------------------
C6_ReturnedAreFlushed ==
    \A i \in TracerIds :
        posts[i] > 0 =>
            \A x \in returned :
                x[3] = i =>
                    IF x[2] = "event"
                      THEN x[1] \in Range(payload[i][1])
                      ELSE x[1] \in Range(payload[i][2])

\* a Stop invoked after an Add call had returned is waiting on a posted
\* payload while another producer is still in its send
C6_Witness ==
    \E i \in TracerIds, t \in Threads, u \in Threads :
        /\ pc[t] = "stop_wait" /\ target[t] = i /\ snap[t][1] = i
        /\ snap[t][2] + snap[t][3] > 0
        /\ posts[i] = 1
        /\ pc[u] = "ae_send" /\ target[u] = i

\* ---------------------------------------------------------------------
\* C7: a StopTracer call made after an earlier one returned is a no-op.
\* Stop() returns from its wait only once the instance is stopped and a
\* stopped instance stays stopped; a StopTracer call that finds the slot's
\* instance stopped takes the early return, which sends no stop command,
\* waits for nothing and changes neither the slot, nor an instance, nor
\* what was posted; no instance is ever flushed or posted twice.
\* ---------------------------------------------------------------------
C7_SecondStopIsNoop ==
    /\ [][\A t \in Threads :
            /\ (pc[t] = "stop_wait" /\ pc'[t] # "stop_wait")
               => (pc'[t] = "idle" /\ stopped[target[t]])
            /\ (/\ pc[t] = "idle"
                /\ pc'[t] \in {"st_noop", "st_read"}
                /\ globalTracer # 0
                /\ stopped[globalTracer])
               => (/\ pc'[t] = "st_noop"
                   /\ UNCHANGED <<slotVars, tracerVars, netVars>>)
            /\ (pc[t] = "st_noop" /\ pc'[t] # "st_noop")
               => (/\ pc'[t] = "idle"
                   /\ UNCHANGED <<slotVars, tracerVars, netVars>>)]_vars
    /\ [][\A i \in TracerIds : stopped[i] => stopped'[i]]_vars
    /\ [](\A i \in TracerIds : sendCount[i] <= 1 /\ posts[i] <= 1)
    /\ [](\A t \in Threads :
            (pc[t] = "st_noop" /\ ~crashed) => ENABLED StopNoop(t))

\* with no other call in flight, a StopTracer call is on its early return
\* because the instance in the slot was already stopped and posted
C7_Witness ==
    \E t \in Threads :
        /\ pc[t] = "st_noop"
        /\ \A u \in Threads \ {t} : pc[u] = "idle"
        /\ globalTracer # 0
        /\ Stopped(globalTracer)
        /\ posts[globalTracer] = 1
        /\ ~crashed

\* ---------------------------------------------------------------------
\* C8: AddEvent/AddException called when the slot is nil or its instance
\* is stopped takes the early return: it sends on no pipe, is never
\* blocked, and leaves the slot and every buffer unchanged.
\* ---------------------------------------------------------------------
C8_AddWithoutTracerIsNoop ==
    /\ [][\A t \in Threads :
            /\ (/\ pc[t] = "idle"
                /\ pc'[t] \in {"ae_noop", "ae_read"}
                /\ (globalTracer = 0 \/ stopped[globalTracer]))
               => (/\ pc'[t] = "ae_noop"
                   /\ UNCHANGED <<slotVars, tracerVars, netVars, recvE, recvX>>)
            /\ (pc[t] = "ae_noop" /\ pc'[t] # "ae_noop")
               => (/\ pc'[t] = "idle"
                   /\ UNCHANGED <<slotVars, tracerVars, netVars, recvE, recvX>>)]_vars
    /\ [](\A t \in Threads :
            (pc[t] = "ae_noop" /\ ~crashed) => ENABLED AddNoop(t))

\* an Add call is on its early return because the instance is stopped
C8_Witness ==
    \E t \in Threads :
        /\ pc[t] = "ae_noop"
        /\ globalTracer # 0
        /\ Stopped(globalTracer)
        /\ ~crashed

\* ---------------------------------------------------------------------
\* C9: a network error or timeout of the flush POST is absorbed: the error
\* is logged, sendTraces returns normally and nothing reaches the host
\* application, the process does not crash.
\* ---------------------------------------------------------------------
C9_TransportErrorAbsorbed ==
    \A i \in TracerIds :
        postResult[i] = "neterr" =>
            /\ flushLog[i] = "send_error"
            /\ ~panicking[i]
            /\ ~crashed

\* ---------------------------------------------------------------------
\* C10: when the collector answers the flush POST with status 500, the
\* flush is logged as failed, the instance is marked stopped and
\* StopTracer returns.
\* ---------------------------------------------------------------------
C10_Status500LoggedAndStopped ==
    \A i \in TracerIds :
        postResult[i] = "status500" =>
            /\ flushLog[i] = "send_error"
            /\ ~panicking[i]
            /\ runPc[i] \in {"resetting", "done"} => Stopped(i)

\* ---------------------------------------------------------------------
\* C11: when marshalling the trace fails in the flush that the stop
\* command starts, only that flush is given up: no POST is made then or
\* later, the records stay out of every payload, sendTraces is not run
\* again, Run() does not panic and goes on to close `stopped`, and a
\* caller waiting in Stop() on that instance can return once it is closed.
\* ---------------------------------------------------------------------
C11_MarshalFailureAbortsFlushOnly ==
    \A i \in TracerIds :
        flushLog[i] = "marshal_error" =>
            /\ posts[i] = 0
            /\ postResult[i] = "none"
            /\ payload[i] = <<<<>>, <<>>>>
            /\ sendCount[i] = 1
            /\ ~panicking[i]
            /\ runPc[i] \in {"closing", "resetting", "done"}
            /\ runPc[i] \in {"resetting", "done"} => Stopped(i)
            /\ \A t \in Threads :
                   (~crashed /\ pc[t] = "stop_wait" /\ target[t] = i
                       /\ Stopped(i)) => ENABLED StopWait(t)

\* records were buffered, marshalling failed, the instance is stopped and
\* the StopTracer call has returned
C11_Witness ==
    \E i \in TracerIds :
        /\ flushLog[i] = "marshal_error"
        /\ events[i] # <<>>
        /\ exceptions[i] # <<>>
        /\ Stopped(i)
        /\ runPc[i] = "done"
        /\ ~crashed
        /\ \A t \in Threads : pc[t] = "idle"

\* sendTraces of instance i has been executed and has returned
FlushFinished(i) ==
    sendCount[i] = 1 /\ runPc[i] \in {"closing", "resetting", "done"}

\* ---------------------------------------------------------------------
\* C12: Stop waits for the flush.  A call of Stop() whose stop command
\* was taken returns only after sendTraces of that instance has finished,
\* and Stopped() of an instance is true only after its sendTraces has
\* finished.
\* ---------------------------------------------------------------------
C12_StopWaitsForFlush ==
    /\ [][\A t \in Threads :
            (pc[t] = "stop_wait" /\ pc'[t] = "idle") =>
                FlushFinished(target[t])]_vars
    /\ [](\A i \in TracerIds : Stopped(i) => FlushFinished(i))

\* a caller still waits in Stop() although the POST has been made, and is
\* released by the close of `stopped`
C12_Witness ==
    \E t \in Threads :
        /\ pc[t] = "stop_wait"
        /\ posts[target[t]] = 1
        /\ Stopped(target[t])
        /\ runPc[target[t]] = "resetting"

\* the Config after fillConfigDefaults, in terms of the Config given
Resolved ==
    /\ DOMAIN config = DOMAIN given
    /\ given.Debug => config.Debug
    /\ given.Token # "" => config.Token = given.Token
    /\ given.CollectorURL # "" => config.CollectorURL = given.CollectorURL
    /\ given.Token = "" => config.Token = env.EPSAGON_TOKEN
    /\ (given.CollectorURL = "" /\ env.AWS_REGION # "") =>
           config.CollectorURL =
               "http://" \o env.AWS_REGION \o ".tc.epsagon.com"
    /\ (given.CollectorURL = "" /\ env.AWS_REGION = "") =>
           config.CollectorURL = "http://us-east-1.tc.epsagon.com"

\* ---------------------------------------------------------------------
\* C13: fillConfigDefaults, for every Config and every environment, never
\* fails; it leaves a non-empty Token, a non-empty CollectorURL and a true
\* Debug flag as given; it sets an empty Token to EPSAGON_TOKEN; it sets
\* an empty CollectorURL to the URL of AWS_REGION when a region is set and
\* to the us-east-1 URL otherwise; a second application under the same
\* environment changes nothing.
\* ---------------------------------------------------------------------
C13_FillConfigDefaults ==
    /\ [](fills < MaxFills => ENABLED FillConfig)
    /\ [](fills >= 1 => Resolved)
    /\ [][(fills >= 1 /\ fills' = fills + 1) => config' = config]_vars

\* a Config without token and URL was resolved from the environment, with
\* a region set, and the resolver has run a second time
C13_Witness ==
    /\ fills = 2
    /\ given.Token = "" /\ given.CollectorURL = "" /\ ~given.Debug
    /\ env.AWS_REGION = "eu-west-1"
    /\ env.EPSAGON_DEBUG = "TRUE"
    /\ config.Token = "envtoken"
    /\ config.CollectorURL = "http://eu-west-1.tc.epsagon.com"
    /\ config.Debug

\* the lifecycle state of an instance, from its two channel flags
Lifecycle(i) ==
    IF runPc[i] = "none" THEN "absent"
    ELSE IF Stopped(i) THEN "stopped"
    ELSE IF Running(i) THEN "running"
    ELSE "created"

LifecycleMoves ==
    {<<"absent", "created">>, <<"created", "running">>,
     <<"running", "stopped">>}

\* ---------------------------------------------------------------------
\* C14: the lifecycle of an instance only moves created -> running ->
\* stopped and never leaves stopped: once Stopped() is true it stays true,
\* nothing is appended to the buffers of the instance any more, and its
\* run loop does not run again.
\* ---------------------------------------------------------------------
C14_StoppedIsTerminal ==
    [][\A i \in TracerIds :
          /\ Lifecycle(i)' # Lifecycle(i) =>
                 <<Lifecycle(i), Lifecycle(i)'>> \in LifecycleMoves
          /\ Stopped(i) =>
                 /\ Stopped(i)'
                 /\ events'[i] = events[i]
                 /\ exceptions'[i] = exceptions[i]
                 /\ runPc'[i] \in {"resetting", "done"}
                 /\ runPc[i] = "done" => runPc'[i] = "done"]_vars

\* an instance that buffered a record is stopped and its run loop has
\* ended while a caller is still blocked in a send on its pipe
C14_Witness ==
    \E i \in TracerIds, t \in Threads :
        /\ Stopped(i)
        /\ runPc[i] = "done"
        /\ events[i] # <<>>
        /\ pc[t] = "ae_send" /\ target[t] = i

\* ---------------------------------------------------------------------
\* C15 (as stated): Running() of an instance is true if and only if its
\* run loop has been started at some point in the past; it stays true
\* after the instance has stopped.
\* ---------------------------------------------------------------------
C15_RunningIffEverStarted ==
    \A i \in TracerIds :
        Running(i) <=> runPc[i] \notin {"none", "start"}

\* ---------------------------------------------------------------------
\* C15 (amended): Running() of an instance is true exactly while its
\* Run() executes between close(running) and the deferred reset of
\* `running`: false before the run loop starts, true during the loop, the
\* flush and the close of `stopped`, and false again once Run() has
\* returned, also when the instance is still the one in the slot.
\* ---------------------------------------------------------------------
C15_RunningWhileRunExecutes ==
    \A i \in TracerIds :
        Running(i) <=>
            runPc[i] \in {"loop", "append_ev", "append_ex", "sending",
                          "posting", "closing", "resetting"}

\* the run loop of the instance in the slot was started and has returned:
\* the instance is stopped, not replaced, and Running() is false
C15_Witness ==
    \E i \in TracerIds :
        /\ globalTracer = i
        /\ runPc[i] = "done"
        /\ Stopped(i)
        /\ posts[i] = 1
        /\ ~Running(i)

\* ---------------------------------------------------------------------
\* C16: under fair scheduling and a fair select, a Stop() call that
\* offers the stop command to an instance whose run loop has taken none
\* eventually returns, unless another Stop() call gets its command taken
\* first or the flush panics and the process dies.  Written as a
\* recurrence: no call stays for ever offering its command to a run loop
\* that has taken none, or waiting for `stopped` after its command was
\* taken.  Callers of AddEvent/AddException cannot keep the run loop from
\* it: while the command is offered, the case <-tracer.closeCmd is ready
\* whenever Run() is at its select, whoever else is sending, and Run() can
\* always take its step back to the select, both from its start and after
\* it received a record.
\* ---------------------------------------------------------------------
C16_SingleStopReturns ==
    /\ [](\A t \in Threads :
            (pc[t] = "stop_send" /\ ~crashed) =>
                /\ runPc[target[t]] = "loop" =>
                       ENABLED RunRecvClose(target[t], t)
                /\ runPc[target[t]] \in {"start", "append_ev", "append_ex"} =>
                       ENABLED \/ RunStart(target[t])
                               \/ RunAppendEvent(target[t])
                               \/ RunAppendException(target[t]))
    /\ \A t \in Threads :
          []<>(\/ crashed
               \/ /\ pc[t] # "stop_wait"
                  /\ ~(/\ pc[t] = "stop_send"
                       /\ runPc[target[t]] \in BeforeStopCmd))

\* Callers keep adding records while Stop() offers the stop command: since
\* this StopTracer call was made, an Add call has returned on the instance,
\* the next one is blocked in its send, and Run() is at its select with
\* the case of the pipe and the case of closeCmd both ready
C16_Witness ==
    \E t, u \in Threads :
        /\ pc[t] = "stop_send" /\ target[t] = FirstTracer
        /\ runPc[FirstTracer] = "loop"
        /\ snap[t][1] = FirstTracer
        /\ ReturnedOn(FirstTracer, "event")
             + ReturnedOn(FirstTracer, "exception") > snap[t][2] + snap[t][3]
        /\ pc[u] = "ae_send" /\ target[u] = FirstTracer

\* an Add call that passed its check returns, unless the run loop of the
\* instance it checked takes a stop command before the send is received:
\* no call stays for ever before its send is received by a run loop that
\* has taken no stop command, or about to return after it was received
AddEventuallyReturns ==
    \A t \in Threads :
        []<>(\/ crashed
             \/ /\ pc[t] # "ae_ret"
                /\ ~(/\ pc[t] \in {"ae_read", "ae_send"}
                     /\ runPc[checked[t]] \in BeforeStopCmd))

BufferOf(i, kind) == IF kind = "event" THEN events[i] ELSE exceptions[i]

\* the run loop of instance i holds record r, received and not yet appended
HeldByRun(i, r, kind) ==
    /\ runVal[i] = r
    /\ runPc[i] = (IF kind = "event" THEN "append_ev" ELSE "append_ex")

IsLast(q, r) == q # <<>> /\ q[Len(q)] = r

\* ---------------------------------------------------------------------
\* C17 (as stated): while no stop command is taken on its instance, an
\* AddEvent/AddException call that passed its check eventually returns
\* under fairness, and when it returns its record is the last element of
\* the buffer of its kind, or is the record the run loop holds and appends
\* before its next select.
\* ---------------------------------------------------------------------
C17_ReturnedRecordIsLast ==
    /\ AddEventuallyReturns
    /\ [][\A t \in Threads :
            (pc[t] = "ae_ret" /\ pc'[t] = "idle") =>
                \/ IsLast(BufferOf(target[t], arg[t][2]), arg[t][1])
                \/ HeldByRun(target[t], arg[t][1], arg[t][2])]_vars

\* ---------------------------------------------------------------------
\* C17 (amended): while no stop command is taken on its instance, an
\* AddEvent/AddException call that passed its check eventually returns
\* under fairness, and when it returns its record has been taken by the
\* run loop: it is in the buffer of its kind, or is the record the run
\* loop holds and appends before its next select.  It need not be the
\* last element: the run loop may have taken the record of another
\* caller before this call returns.
\* ---------------------------------------------------------------------
C17_ReturnedRecordIsTaken ==
    /\ AddEventuallyReturns
    /\ [][\A t \in Threads :
            (pc[t] = "ae_ret" /\ pc'[t] = "idle") =>
                \/ arg[t][1] \in Range(BufferOf(target[t], arg[t][2]))
                \/ HeldByRun(target[t], arg[t][1], arg[t][2])]_vars

\* a call is about to return while the record of another caller already
\* follows its own in the buffer
C17_Witness ==
    \E t \in Threads :
        /\ pc[t] = "ae_ret"
        /\ Len(events[target[t]]) = 2
        /\ events[target[t]][1] = arg[t][1]
        /\ runPc[target[t]] = "loop"

\* the run loop of instance i has taken a stop command
StopTaken(i) == runPc[i] = "sending" \/ sendCount[i] > 0

\* ---------------------------------------------------------------------
\* C18: an AddEvent/AddException call that passed its check
\* on a not-stopped instance and whose send was not received when the run
\* loop of that instance took the stop command never completes, also when
\* a new instance is created later, and its record is not in the payload
\* of that instance.
\* ---------------------------------------------------------------------
C18_CheckedAddBlockedForever ==
    [][\A t \in Threads :
          (pc[t] \in {"ae_read", "ae_send"} /\ beforeStop[t]
              /\ StopTaken(checked[t])) =>
                 /\ pc'[t] \in {"ae_read", "ae_send"}
                 /\ arg[t][1] \notin PayloadRecs(checked[t])']_vars

\* the instance with this id is as CreateTracer makes it: empty buffers,
\* open channels, run loop not started, nothing received or sent
Fresh(i) ==
    /\ events[i] = <<>> /\ exceptions[i] = <<>>
    /\ ~Stopped(i) /\ ~Running(i)
    /\ runPc[i] = "start"
    /\ recvE[i] = <<>> /\ recvX[i] = <<>>
    /\ sendCount[i] = 0 /\ posts[i] = 0
    /\ \A t \in Threads : target[t] # i

\* ---------------------------------------------------------------------
\* C19: StopTracer does not clear the slot.  The slot changes only when
\* CreateTracer stores a new instance, over nil or over a stopped
\* instance, and is never nil again; the new instance has empty buffers
\* and channels of its own, and the payload an instance flushes holds no
\* record added during an earlier session: every record in it comes from
\* an Add call that found this very instance in the slot.
\* ---------------------------------------------------------------------
C19_NoRecordOfEarlierSession ==
    /\ [][globalTracer' # globalTracer =>
                /\ \E t \in Threads : pc[t] = "ct_alloc" /\ pc'[t] = "idle"
                /\ globalTracer = 0 \/ Stopped(globalTracer)
                /\ \E g \in TracerIds \ (1..nTracers) :
                       globalTracer' = g /\ Fresh(g)']_vars
    /\ [](\A i \in TracerIds :
            \A r \in PayloadRecs(i) : addedIn[r] = i)

\* ---------------------------------------------------------------------
\* C20: a StopTracer call stops only the instance that was in the slot
\* when the call made its nil/stopped check: the instance whose run loop
\* takes its stop command is the one it checked, never one created after
\* the check.
\* ---------------------------------------------------------------------
C20_StopsOnlyCheckedInstance ==
    [][\A t \in Threads :
          (pc[t] = "stop_send" /\ pc'[t] = "stop_wait") =>
              target[t] = checked[t]]_vars

====
